---- MODULE Spec2Model ----
(***************************************************************************)
(* Model of null_remover.py: clean_csv_file (read, marker normalisation,   *)
(* the neighbour imputation loop, the missing count, the sort step, the    *)
(* save and the return value) and the decision main takes from the result. *)
(*                                                                         *)
(* A cell is written as its text.  NaN is the dataframe's missing          *)
(* sentinel.  Row labels are 0-based as in the code (RangeIndex of         *)
(* read_csv); label i of a column is element i+1 of its sequence.          *)
(***************************************************************************)
EXTENDS Integers, Sequences, FiniteSets, TLC

\* ------------------------------------------------------------------ bounds
MaxRows == 7        \* rows of the single-column tables
MaxWideRows == 3    \* rows of the two-column tables

\* ------------------------------------------------------- program constants
Window == 5         \* range(idx-1, max(-1, idx-6), -1), range(idx+1, min(len(df), idx+6))

NaN == "NaN"        \* np.nan
None == "<None>"    \* Python None (sort_column default)

\* the list given to df.replace on line 38
markers == {"", "NULL", "null", "None"}

\* month_map of lines 98-102
month_map ==
    "January" :> 1 @@ "February" :> 2 @@ "March" :> 3 @@ "April" :> 4 @@
    "May" :> 5 @@ "June" :> 6 @@ "July" :> 7 @@ "August" :> 8 @@
    "September" :> 9 @@ "October" :> 10 @@ "November" :> 11 @@ "December" :> 12

\* the value of result returned by the except branch, line 117
ExceptResult == <<0, 0, 0>>

\* ------------------------------------------------------------ input tables
\* Cell texts the tables are drawn from, per column name.
Cells(name) ==
    CASE name = "score"              -> {NaN, "5", "9"}
      [] name = "id"                 -> {NaN, "1", "2"}
      [] name = "mark"               -> {NaN, "None", "5"}
      [] name = "arrival_date_year"  -> {NaN, "2015", "2016"}
      [] name = "arrival_date_month" -> {NaN, "January", "March"}

\* value of a numeral cell (pd.to_numeric on the texts above)
numeral ==
    "1" :> 1 @@ "2" :> 2 @@ "5" :> 5 @@ "9" :> 9 @@ "2015" :> 2015 @@ "2016" :> 2016

\* rank of a text cell in Python's string order
collate ==
    "January" :> 1 @@ "March" :> 2

Table1(a, n) ==
    { [columns |-> <<a>>, data |-> (a :> x)] : x \in [1..n -> Cells(a)] }

Table2(a, b, n) ==
    { [columns |-> <<a, b>>, data |-> (a :> x) @@ (b :> y)] :
        x \in [1..n -> Cells(a)], y \in [1..n -> Cells(b)] }

\* (table, sort_column) pairs clean_csv_file is called with
ScoreTables == UNION { Table1("score", n) : n \in 0..MaxRows }
MarkTables == UNION { Table2("id", "mark", n) : n \in 0..MaxWideRows }
HotelTables ==
    UNION { Table2("arrival_date_year", "arrival_date_month", n) :
              n \in 0..MaxWideRows }

Inputs ==
    (ScoreTables \X {None})
    \cup (MarkTables \X {None, "mark"})
    \cup (HotelTables \X {None, "arrival_date_month", "score"})

\* ------------------------------------------------------------------- state
VARIABLES
    pc,                 \* position in clean_csv_file / main
    csv,                \* content of input_file as read_csv parses it
    sort_column,        \* argument of clean_csv_file
    columns,            \* df.columns
    df,                 \* df: column name -> sequence of cells
    index,              \* df.index: sequence of row labels
    col,                \* position of the for-column loop in columns (1-based)
    null_indices,       \* rest of null_indices still to be visited
    replaced_in_column,
    total_replaced,
    null_count_before,
    null_count_after,
    result,             \* value returned by clean_csv_file, <<>> before the return
    output_file,        \* <<>> or <<[index, data]>> once to_csv has written
    message,            \* what main printed: "", "success" or "failed"
    total_files_processed,
    total_records_processed,
    total_nulls_replaced,
    \* history
    raised,             \* the except branch of clean_csv_file ran
    df0,                \* df after line 38 (normalised, before imputation)
    replaced,           \* replaced_in_column of each finished column
    log                 \* the cells visited in the current column pass

vars == <<pc, csv, sort_column, columns, df, index, col, null_indices,
          replaced_in_column, total_replaced, null_count_before,
          null_count_after, result, output_file, message,
          total_files_processed, total_records_processed,
          total_nulls_replaced, raised, df0, replaced, log>>

\* ----------------------------------------------------------------- helpers
Range(s) == { s[i] : i \in 1..Len(s) }

RECURSIVE SumSeq(_)
SumSeq(s) == IF s = <<>> THEN 0 ELSE Head(s) + SumSeq(Tail(s))

Max(a, b) == IF a >= b THEN a ELSE b
Min(a, b) == IF a <= b THEN a ELSE b

\* pd.notna / isnull on one cell
notna(v) == v # NaN

\* number of cells of data (over the columns cs) equal to v:
\* df.isnull().sum().sum() for NaN, (df == v).sum().sum() for a text
CountCells(cs, data, v) ==
    SumSeq([k \in 1..Len(cs) |->
              Cardinality({ i \in 1..Len(data[cs[k]]) : data[cs[k]][i] = v })])

\* df.replace(['', 'NULL', 'null', 'None'], np.nan)
replace(data) ==
    [c \in DOMAIN data |->
        [i \in 1..Len(data[c]) |->
            IF data[c][i] \in markers THEN NaN ELSE data[c][i]]]

\* a plausible slip: the first row is never looked at
isnull_index_skip_first(column) ==
    LET F[i \in 0..Len(column)] ==
            IF i <= 1 THEN <<>>
            ELSE IF column[i] = NaN THEN Append(F[i-1], i - 1) ELSE F[i-1]
    IN F[Len(column)]

\* a plausible slip: the isnull filter is forgotten (df.index.tolist())
isnull_index_all(column) == [i \in 1..Len(column) |-> i - 1]

\* df[df[column].isnull()].index.tolist()
isnull_index(column) ==
    LET F[i \in 0..Len(column)] ==
            IF i = 0 THEN <<>>
            ELSE IF column[i] = NaN THEN Append(F[i-1], i - 1) ELSE F[i-1]
    IN F[Len(column)]

\* lines 51-54: for i in range(idx-1, max(-1, idx-6), -1)
RECURSIVE above_loop(_, _, _)
above_loop(column, i, stop) ==
    IF i <= stop THEN <<>>
    ELSE IF i >= 0 /\ notna(column[i + 1]) THEN <<column[i + 1]>>
    ELSE above_loop(column, i - 1, stop)

scan_above(column, idx) ==
    above_loop(column, idx - 1, Max(-1, idx - (Window + 1)))

\* a plausible slip: the break is missing after the append, so the farthest
\* value of the window is the one left to choose
RECURSIVE below_loop_no_break(_, _, _)
below_loop_no_break(column, i, stop) ==
    IF i >= stop THEN <<>>
    ELSE IF below_loop_no_break(column, i + 1, stop) # <<>>
         THEN below_loop_no_break(column, i + 1, stop)
    ELSE IF notna(column[i + 1]) THEN <<column[i + 1]>>
    ELSE <<>>

\* lines 57-60: for i in range(idx+1, min(len(df), idx+6))
RECURSIVE below_loop(_, _, _)
below_loop(column, i, stop) ==
    IF i >= stop THEN <<>>
    ELSE IF notna(column[i + 1]) THEN <<column[i + 1]>>
    ELSE below_loop(column, i + 1, stop)

\* a plausible slip: the downward scan is not bounded by the window
scan_below_unbounded(column, idx) ==
    below_loop(column, idx + 1, Len(column))

scan_below(column, idx) ==
    below_loop(column, idx + 1, Min(Len(column), idx + (Window + 1)))

\* a plausible slip: .dropna() is forgotten
dropna_forgotten(column) == column

\* df[column].dropna().tolist()
dropna(column) == SelectSeq(column, notna)

\* ---------------------------------------------------------------- sort step
Perms(n) ==
    { p \in [1..n -> 1..n] : \A i, j \in 1..n : i # j => p[i] # p[j] }

\* rows of data (and their labels) taken in the order p
take(data, ix, p) ==
    [index |-> [k \in 1..Len(p) |-> ix[p[k]]],
     data  |-> [c \in DOMAIN data |-> [k \in 1..Len(p) |-> data[c][p[k]]]]]

is_numeral(v) == v \in DOMAIN numeral

\* pd.to_numeric(column, errors='coerce')
to_numeric(column) ==
    [i \in 1..Len(column) |-> IF is_numeral(column[i]) THEN column[i] ELSE NaN]

\* comparison key of a cell of a column of one type
cell_key(v) == IF is_numeral(v) THEN numeral[v] ELSE collate[v]

\* a sorts strictly before b; NaN is placed last in either direction
before(a, b, ascending) ==
    IF a = NaN THEN FALSE
    ELSE IF b = NaN THEN TRUE
    ELSE IF ascending THEN cell_key(a) < cell_key(b)
    ELSE cell_key(a) > cell_key(b)

\* df.sort_values(sort_column, ascending=...): quicksort, so rows with equal
\* keys may come out in any order
sort_values(data, ix, by, ascending) ==
    { take(data, ix, p) :
        p \in { q \in Perms(Len(ix)) :
                  \A k, l \in 1..Len(ix) :
                     k < l => ~before(data[by][q[l]], data[by][q[k]], ascending) } }

\* df['arrival_date_month'].map(month_map)
month_num(column) ==
    [i \in 1..Len(column) |->
        IF column[i] \in DOMAIN month_map THEN month_map[column[i]] ELSE 0]

\* row a sorts strictly before row b on (arrival_date_year, month_num);
\* month_num 0 stands for NaN and is placed last
date_before(data, a, b) ==
    LET y == data["arrival_date_year"]
        m == month_num(data["arrival_date_month"])
        m_before(i, j) == m[i] # 0 /\ (m[j] = 0 \/ m[i] < m[j])
    IN  \/ before(y[a], y[b], TRUE)
        \/ /\ ~before(y[b], y[a], TRUE)
           /\ m_before(a, b)

\* df.sort_values(['arrival_date_year', 'month_num']): lexsort, stable
sort_by_date(data, ix) ==
    { take(data, ix, p) :
        p \in { q \in Perms(Len(ix)) :
                  \A k, l \in 1..Len(ix) :
                     k < l => /\ ~date_before(data, q[l], q[k])
                              /\ (~date_before(data, q[k], q[l]) => q[k] < q[l]) } }

\* line 82: if sort_column and sort_column in df.columns
sort_requested(sc, cs) == sc # None /\ sc # "" /\ sc \in Range(cs)

\* line 96
is_hotel(cs) ==
    "arrival_date_year" \in Range(cs) /\ "arrival_date_month" \in Range(cs)

\* line 86
sorts_numerically(column) ==
    \/ \A i \in 1..Len(column) : column[i] = NaN \/ is_numeral(column[i])
    \/ \E i \in 1..Len(column) : is_numeral(column[i])

\* a plausible slip: with no sort requested the first column is sorted on
sort_step_default_first(sc, cs, data, ix) ==
    IF sort_requested(sc, cs) THEN
        IF sorts_numerically(data[sc])
        THEN sort_values([data EXCEPT ![sc] = to_numeric(data[sc])], ix, sc, FALSE)
        ELSE sort_values(data, ix, sc, TRUE)
    ELSE IF is_hotel(cs) THEN sort_by_date(data, ix)
    ELSE sort_values(data, ix, cs[1], TRUE)

\* lines 81-106: the possible (index, data) after the sort step.  The
\* try/except of lines 84-95 guards a sort of mixed types; the columns here
\* hold cells of one type, on which sort_values does not raise.
sort_step(sc, cs, data, ix) ==
    IF sort_requested(sc, cs) THEN
        IF sorts_numerically(data[sc])
        THEN sort_values([data EXCEPT ![sc] = to_numeric(data[sc])], ix, sc, FALSE)
        ELSE sort_values(data, ix, sc, TRUE)
    ELSE IF is_hotel(cs) THEN sort_by_date(data, ix)
    ELSE { [index |-> ix, data |-> data] }

\* ----------------------------------------------------------------- actions
Init ==
    /\ \E in \in Inputs : csv = in[1] /\ sort_column = in[2]
    /\ pc = "read"
    /\ columns = <<>>
    /\ df = <<>>
    /\ index = <<>>
    /\ col = 0
    /\ null_indices = <<>>
    /\ replaced_in_column = 0
    /\ total_replaced = 0
    /\ null_count_before = 0
    /\ null_count_after = 0
    /\ result = <<>>
    /\ output_file = <<>>
    /\ message = ""
    /\ total_files_processed = 0
    /\ total_records_processed = 0
    /\ total_nulls_replaced = 0
    /\ raised = FALSE
    /\ df0 = <<>>
    /\ replaced = <<>>
    /\ log = <<>>

main_vars == <<message, total_files_processed, total_records_processed,
               total_nulls_replaced>>

loop_vars == <<col, null_indices, replaced_in_column, total_replaced,
               replaced, log>>

\* lines 27-41: read_csv succeeds; count, normalise, total_replaced = 0
Read ==
    /\ pc = "read"
    /\ columns' = csv.columns
    /\ null_count_before' =
          CountCells(csv.columns, csv.data, NaN)
          + CountCells(csv.columns, csv.data, "")
          + CountCells(csv.columns, csv.data, "NULL")
    /\ df' = replace(csv.data)
    /\ df0' = replace(csv.data)
    /\ index' = [k \in 1..Len(csv.data[csv.columns[1]]) |-> k - 1]
    /\ total_replaced' = 0
    /\ col' = 0
    /\ pc' = "for_column"
    /\ UNCHANGED <<csv, sort_column, null_indices, replaced_in_column,
                   null_count_after, result, output_file, raised, replaced, log>>
    /\ UNCHANGED main_vars

\* lines 27, 115-117: read_csv raises (missing file, undecodable, malformed)
ReadError ==
    /\ pc = "read"
    /\ raised' = TRUE
    /\ result' = ExceptResult
    /\ pc' = "returned"
    /\ UNCHANGED <<csv, sort_column, columns, df, index, null_count_before,
                   null_count_after, output_file, df0>>
    /\ UNCHANGED loop_vars
    /\ UNCHANGED main_vars

\* lines 42-44: next column of the for loop, or the loop is over
ForColumn ==
    /\ pc = "for_column"
    /\ IF col < Len(columns)
       THEN /\ col' = col + 1
            /\ null_indices' = isnull_index(df[columns[col + 1]])
            /\ replaced_in_column' = 0
            /\ log' = <<>>
            /\ pc' = "for_idx"
       ELSE /\ pc' = "count_after"
            /\ UNCHANGED <<col, null_indices, replaced_in_column, log>>
    /\ UNCHANGED <<csv, sort_column, columns, df, index, total_replaced,
                   null_count_before, null_count_after, result, output_file,
                   raised, df0, replaced>>
    /\ UNCHANGED main_vars

\* a plausible slip: the scans read a copy of the column taken before the pass
loc_column_snapshot(column) == df0[column]

\* a plausible slip: the scans read the first column instead of the current one
loc_column_first(column) == df[columns[1]]

\* the column the scans read through df.loc[i, column] (lines 52-53, 58-59)
loc_column(column) == df[column]

\* lines 46-71: one iteration of the for-idx loop
FillCell ==
    /\ pc = "for_idx"
    /\ null_indices # <<>>
    /\ LET idx == Head(null_indices)
           column == columns[col]
           adjacent_values ==
               scan_above(loc_column(column), idx)
                 \o scan_below(loc_column(column), idx)
           non_null_values == dropna(df[column])
           entry(v, branch) ==
               [idx |-> idx, adjacent_values |-> adjacent_values,
                branch |-> branch, value |-> v]
       IN  IF adjacent_values # <<>>
           THEN \E v \in Range(adjacent_values) :        \* random.choice
                  /\ df' = [df EXCEPT ![column][idx + 1] = v]
                  /\ replaced_in_column' = replaced_in_column + 1
                  /\ log' = Append(log, entry(v, "adjacent"))
           ELSE IF non_null_values # <<>>
           THEN \E v \in Range(non_null_values) :        \* random.choice
                  /\ df' = [df EXCEPT ![column][idx + 1] = v]
                  /\ replaced_in_column' = replaced_in_column + 1
                  /\ log' = Append(log, entry(v, "column"))
           ELSE /\ log' = Append(log, entry(NaN, "none"))
                /\ UNCHANGED <<df, replaced_in_column>>
    /\ null_indices' = Tail(null_indices)
    /\ UNCHANGED <<pc, csv, sort_column, columns, index, col, total_replaced,
                   null_count_before, null_count_after, result, output_file,
                   raised, df0, replaced>>
    /\ UNCHANGED main_vars

\* a plausible slip: total_replaced = replaced_in_column instead of +=
EndColumn_overwrite ==
    /\ pc = "for_idx"
    /\ null_indices = <<>>
    /\ total_replaced' = replaced_in_column
    /\ replaced' = Append(replaced, replaced_in_column)
    /\ pc' = "for_column"
    /\ UNCHANGED <<csv, sort_column, columns, df, index, col, null_indices,
                   replaced_in_column, null_count_before, null_count_after,
                   result, output_file, raised, df0, log>>
    /\ UNCHANGED main_vars

\* lines 73-75: the column is finished
EndColumn ==
    /\ pc = "for_idx"
    /\ null_indices = <<>>
    /\ total_replaced' = total_replaced + replaced_in_column
    /\ replaced' = Append(replaced, replaced_in_column)
    /\ pc' = "for_column"
    /\ UNCHANGED <<csv, sort_column, columns, df, index, col, null_indices,
                   replaced_in_column, null_count_before, null_count_after,
                   result, output_file, raised, df0, log>>
    /\ UNCHANGED main_vars

\* lines 77-79
CountAfter ==
    /\ pc = "count_after"
    /\ null_count_after' =
          CountCells(columns, df, NaN)
          + CountCells(columns, df, "")
    /\ pc' = "sort"
    /\ UNCHANGED <<csv, sort_column, columns, df, index, null_count_before,
                   result, output_file, raised, df0>>
    /\ UNCHANGED loop_vars
    /\ UNCHANGED main_vars

\* lines 81-106
Sort ==
    /\ pc = "sort"
    /\ \E s \in sort_step(sort_column, columns, df, index) :
          /\ df' = s.data
          /\ index' = s.index
    /\ pc' = "save"
    /\ UNCHANGED <<csv, sort_column, columns, null_count_before,
                   null_count_after, result, output_file, raised, df0>>
    /\ UNCHANGED loop_vars
    /\ UNCHANGED main_vars

\* lines 108-113: to_csv writes the rows in their current order
Save ==
    /\ pc = "save"
    /\ output_file' = <<[index |-> index, data |-> df]>>
    /\ result' = <<Len(index), total_replaced, null_count_after>>
    /\ pc' = "returned"
    /\ UNCHANGED <<csv, sort_column, columns, df, index, null_count_before,
                   null_count_after, raised, df0>>
    /\ UNCHANGED loop_vars
    /\ UNCHANGED main_vars

\* lines 109, 115-117: to_csv raises (unwritable path)
WriteError ==
    /\ pc = "save"
    /\ raised' = TRUE
    /\ result' = ExceptResult
    /\ pc' = "returned"
    /\ UNCHANGED <<csv, sort_column, columns, df, index, null_count_before,
                   null_count_after, output_file, df0>>
    /\ UNCHANGED loop_vars
    /\ UNCHANGED main_vars

\* lines 170-177: main unpacks the result and decides
Main ==
    /\ pc = "returned"
    /\ LET records == result[1]
           replaced_ == result[2]
       IN  IF records > 0
           THEN /\ total_files_processed' = total_files_processed + 1
                /\ total_records_processed' = total_records_processed + records
                /\ total_nulls_replaced' = total_nulls_replaced + replaced_
                /\ message' = "success"
           ELSE /\ message' = "failed"
                /\ UNCHANGED <<total_files_processed, total_records_processed,
                               total_nulls_replaced>>
    /\ pc' = "done"
    /\ UNCHANGED <<csv, sort_column, columns, df, index, null_count_before,
                   null_count_after, result, output_file, raised, df0>>
    /\ UNCHANGED loop_vars

Next ==
    \/ Read
    \/ ReadError
    \/ ForColumn
    \/ FillCell
    \/ EndColumn
    \/ CountAfter
    \/ Sort
    \/ Save
    \/ WriteError
    \/ Main

Spec == Init /\ [][Next]_vars

\* ------------------------------------------------------------ claim helpers
Last(s) == s[Len(s)]

Identity(n) == [k \in 1..n |-> k - 1]

AllNaN(column) == \A i \in 1..Len(column) : column[i] = NaN

SomeValue(column) == \E i \in 1..Len(column) : column[i] # NaN

NaNCount(column) == Cardinality({ i \in 1..Len(column) : column[i] = NaN })

Values(column) == { column[i] : i \in 1..Len(column) } \ {NaN}

\* the imputation loop is running or has just finished (lines 42-76)
Imputing == pc \in {"for_column", "for_idx", "count_after"}

\* the next step is an iteration of the for-idx loop
AtCell == pc = "for_idx" /\ null_indices # <<>>

\* rows idx-5..idx-1 / idx+1..idx+5 that exist and hold a value
RowsAbove(column, idx) ==
    { j \in Max(0, idx - Window)..(idx - 1) : column[j + 1] # NaN }

RowsBelow(column, idx) ==
    { j \in (idx + 1)..Min(Len(column) - 1, idx + Window) : column[j + 1] # NaN }

\* the value of the nearest such row, as a set of at most one element
NearestAbove(column, idx) ==
    { column[j + 1] : j \in { k \in RowsAbove(column, idx) :
                                \A m \in RowsAbove(column, idx) : m <= k } }

NearestBelow(column, idx) ==
    { column[j + 1] : j \in { k \in RowsBelow(column, idx) :
                                \A m \in RowsBelow(column, idx) : m >= k } }

\* ------------------------------------------------------------------ claims

\* C1 (completeness): once the imputation loop has finished, every column
\* that held at least one value after normalisation has no missing cell; the
\* same holds of each column as soon as its own pass is finished.
C1_Completeness ==
    Imputing =>
        \A k \in 1..Len(replaced) :
            SomeValue(df0[columns[k]]) => ~\E i \in 1..Len(index) :
                                              df[columns[k]][i] = NaN

\* the loop is over for a column of 6 missing rows followed by one value
C1_Witness ==
    /\ pc = "count_after"
    /\ columns = <<"score">>
    /\ Len(index) = 7
    /\ \A i \in 1..6 : df0["score"][i] = NaN
    /\ df0["score"][7] = "9"

\* C2 (randomisation boundedness): whenever a cell is visited while a value
\* exists within 5 rows above or below it, the value written is the nearest
\* value above or the nearest value below, never another one.
C2_Boundedness ==
    [][AtCell =>
        LET idx == Head(null_indices)
            column == df[columns[col]]
            candidates == NearestAbove(column, idx) \cup NearestBelow(column, idx)
        IN  candidates # {} => df'[columns[col]][idx + 1] \in candidates]_vars

\* a cell was filled from two different candidates while a third, different
\* or farther, value existed in the window
C2_Witness ==
    /\ pc = "for_idx"
    /\ \E k \in 1..Len(log) :
          /\ log[k].branch = "adjacent"
          /\ Len(log[k].adjacent_values) = 2
          /\ log[k].adjacent_values[1] # log[k].adjacent_values[2]
          /\ log[k].idx + 3 <= Len(index)
          /\ df0[columns[col]][log[k].idx + 2] # NaN
          /\ df0[columns[col]][log[k].idx + 3] # NaN
          /\ df0[columns[col]][log[k].idx + 3] # df0[columns[col]][log[k].idx + 2]

\* C3 (ordering and visibility): within a column pass the missing rows are
\* visited in strictly ascending order, each exactly once, and a row whose
\* predecessor was filled earlier in the pass sees that fill as its above
\* candidate.
C3_OrderAndVisibility ==
    pc = "for_idx" =>
        /\ \A k, l \in 1..Len(log) : k < l => log[k].idx < log[l].idx
        /\ \A k, l \in 1..Len(null_indices) :
              k < l => null_indices[k] < null_indices[l]
        /\ \A k \in 1..Len(log) : \A l \in 1..Len(null_indices) :
              log[k].idx < null_indices[l]
        /\ { log[k].idx : k \in 1..Len(log) } \cup Range(null_indices)
              = { i \in 0..(Len(index) - 1) : df0[columns[col]][i + 1] = NaN }
        /\ \A l \in 2..Len(log) :
              (log[l].idx = log[l - 1].idx + 1 /\ log[l - 1].value # NaN)
                 => /\ log[l].adjacent_values # <<>>
                    /\ log[l].adjacent_values[1] = log[l - 1].value

\* [5, missing, missing, 9]: row 1 took 9, so row 2 sees 9 above and 9 below
C3_Witness ==
    /\ pc = "for_idx"
    /\ df0[columns[col]] = <<"5", NaN, NaN, "9">>
    /\ Len(log) = 2
    /\ log[1].value = "9"
    /\ log[2].adjacent_values = <<"9", "9">>

\* C4 (out-of-window fallback): a visited cell takes the column-wide branch
\* exactly when no value exists within 5 rows above and 5 rows below; then it
\* receives one of the values currently in the column, and stays missing
\* only when the column holds no value at all.
C4_Fallback ==
    [][AtCell =>
        LET idx == Head(null_indices)
            column == df[columns[col]]
            window_empty ==
                RowsAbove(column, idx) = {} /\ RowsBelow(column, idx) = {}
            written == df'[columns[col]][idx + 1]
        IN  /\ (Last(log').branch # "adjacent") <=> window_empty
            /\ window_empty =>
                  IF Values(column) # {}
                  THEN written \in Values(column) /\ Last(log').branch = "column"
                  ELSE written = NaN
            /\ written = NaN => Values(column) = {}]_vars

\* row 0 of 6 missing rows followed by a value was filled from the column
C4_Witness ==
    /\ pc = "for_idx"
    /\ Len(index) = 7
    /\ \A i \in 1..6 : df0[columns[col]][i] = NaN
    /\ df0[columns[col]][7] = "9"
    /\ Len(log) = 1
    /\ log[1] = [idx |-> 0, adjacent_values |-> <<>>, branch |-> "column",
                 value |-> "9"]
    /\ df[columns[col]][1] = "9"

\* C5 (all-missing columns): a column that is entirely missing after
\* normalisation is still entirely missing during and after its pass, its
\* replacement counter is 0 and no exception was raised.
C5_AllMissingPreserved ==
    Imputing =>
        /\ ~raised
        /\ \A k \in 1..Len(columns) :
              AllNaN(df0[columns[k]]) =>
                 /\ AllNaN(df[columns[k]])
                 /\ k <= Len(replaced) => replaced[k] = 0
                 /\ (k = col /\ pc = "for_idx") => replaced_in_column = 0

\* the loop is over for a table whose second column is entirely missing
\* (three rows) and whose first column was filled
C5_Witness ==
    /\ pc = "count_after"
    /\ Len(columns) = 2
    /\ Len(index) = 3
    /\ AllNaN(df0[columns[2]])
    /\ AllNaN(df[columns[2]])
    /\ replaced[1] > 0
    /\ total_replaced = replaced[1]

\* C6 (shape invariance): during and after the imputation loop the rows, the
\* row labels and the columns are those of the table read, and every cell
\* that held a value before imputation still holds it.
C6_ShapeInvariance ==
    Imputing =>
        /\ columns = csv.columns
        /\ DOMAIN df = DOMAIN df0
        /\ index = Identity(Len(csv.data[csv.columns[1]]))
        /\ \A c \in DOMAIN df :
              /\ Len(df[c]) = Len(df0[c])
              /\ \A i \in 1..Len(df[c]) :
                    df0[c][i] # NaN => df[c][i] = df0[c][i]

\* the loop is over; a missing cell between two different values was filled
C6_Witness ==
    /\ pc = "count_after"
    /\ \E c \in DOMAIN df : \E i \in 2..(Len(index) - 1) :
          /\ df0[c][i] = NaN
          /\ df[c][i] # NaN
          /\ df0[c][i - 1] # NaN
          /\ df0[c][i + 1] # NaN
          /\ df0[c][i - 1] # df0[c][i + 1]

\* C7 (failure is distinguishable from emptiness): a run that succeeds on a
\* table of zero rows does not yield what the except branch returns, and main
\* does not report it as failed.
C7_FailureDistinguishable ==
    (pc = "done" /\ ~raised /\ Len(index) = 0) =>
        /\ result # ExceptResult
        /\ message # "failed"

C9_Accounting ==
    Imputing =>
        /\ \A k \in 1..Len(replaced) :
              replaced[k] = NaNCount(df0[columns[k]]) - NaNCount(df[columns[k]])
        /\ pc = "for_idx" =>
              replaced_in_column
                 = NaNCount(df0[columns[col]]) - NaNCount(df[columns[col]])
        /\ pc = "for_column" => total_replaced = SumSeq(replaced)
        /\ pc = "count_after" =>
              /\ total_replaced = SumSeq(replaced)
              /\ total_replaced
                    = CountCells(columns, df0, NaN)
                      - CountCells(columns, df, NaN)

\* the loop is over for a table with fills in both columns
C9_Witness ==
    /\ pc = "count_after"
    /\ Len(replaced) = 2
    /\ replaced[1] > 0
    /\ replaced[2] > 0
    /\ total_replaced = replaced[1] + replaced[2]

\* C10 (value closure): every value in a column of the dataframe is a value
\* the same column held after normalisation, before imputation.
C10_ValueClosure ==
    \A c \in DOMAIN df : Values(df[c]) \subseteq Values(df0[c])

\* in the second column a cell was filled from a value that was itself
\* written earlier in the pass
C10_Witness ==
    /\ pc = "for_idx"
    /\ col = 2
    /\ Len(log) >= 2
    /\ df0[columns[2]][1] # NaN
    /\ log[1].idx = 1
    /\ log[2].idx = 2
    /\ log[2].adjacent_values = <<log[1].value>>

====
